---------------------------- MODULE Spec2Model ----------------------------
(***************************************************************************)
(* Model of augment_tools_core/patch_manager.py: PatchManager patches one  *)
(* JavaScript target file and keeps a sibling backup <stem>_ori<ext>.      *)
(*                                                                         *)
(* A file's content is a sequence of tokens.  The tokens the code looks    *)
(* for (the words of the callApi regular expression, the four signature    *)
(* substrings) are tokens of their own; "ws" is one whitespace character   *)
(* and "x" any other text.  A file is a record: whether it exists, its     *)
(* content and its owner write bit.                                        *)
(***************************************************************************)
EXTENDS Integers, Sequences, FiniteSets

VARIABLES target, backup, last

vars == <<target, backup, last>>

(* ------------------------------ bounds -------------------------------- *)
\* Most occurrences of the callApi anchor in a generated target version.
MaxAnchors == 2

(* ------------------------------ files --------------------------------- *)
Absent == [exists |-> FALSE, content |-> <<>>, writable |-> FALSE]

File(c, w) == [exists |-> TRUE, content |-> c, writable |-> w]

Contains(content, tok) == \E i \in 1..Len(content) : content[i] = tok

Prefix(content, n) == SubSeq(content, 1, n)

(* --------------------------- PatchMode -------------------------------- *)
PatchMode == {"block", "random", "empty", "stealth", "debug"}

SigReport == "startsWith(\"report-\")"
SigRecord == "startsWith(\"record-\")"
SigSession == "randSessionId"
SigUserAgent == "this._userAgent = \"\""

\* A template whose second test is misspelt.
patches_typo(mode) ==
    <<"if", SigReport, "||", IF mode = "empty" THEN "startsWith(\"record\")" ELSE SigRecord>>
        \o <<"i={}">>

\* self.patches: every template opens with the same test of s and ends
\* with the body of its mode.
patches(mode) ==
    <<"if", SigReport, "||", SigRecord>> \o
    CASE mode = "block" -> <<"return{success:true}">>
      [] mode = "random" -> <<"i={timestamp,version}">>
      [] mode = "empty" -> <<"i={}">>
      [] mode = "stealth" -> <<"i={timestamp,session,events}">>
      [] mode = "debug" -> <<"i={timestamp,version}", "subscription-info", "limits">>

\* self.patch_signatures
patch_signatures == {SigReport, SigRecord, SigSession, SigUserAgent}

_generate_session_randomizer ==
    <<"chars", SigSession, "this.sessionId", SigUserAgent>>

\* Signatures quoted otherwise than the templates quote them.
_is_already_patched_quotes(content) ==
    \E sig \in {"startsWith('report-')", "startsWith('record-')"} : Contains(content, sig)

\* any(sig in content for sig in self.patch_signatures)
_is_already_patched(content) ==
    \E sig \in patch_signatures : Contains(content, sig)

(* ----------------------- _find_callapi_function ----------------------- *)
\* The first index >= i of content that holds no whitespace (Len+1 if none).
RECURSIVE SkipWs(_, _)
SkipWs(content, i) ==
    IF i <= Len(content) /\ content[i] = "ws" THEN SkipWs(content, i + 1) ELSE i

\* The first index >= i of content that holds ")" (Len+1 if none): [^)]*
RECURSIVE SkipArgs(_, _)
SkipArgs(content, i) ==
    IF i <= Len(content) /\ content[i] # ")" THEN SkipArgs(content, i + 1) ELSE i

At(content, i, tok) == i <= Len(content) /\ content[i] = tok

\* async\s+callApi\s*\([^)]*\)\s*\{ matched at index i: the index of the
\* opening brace that ends the match, 0 when there is no match at i.
MatchAt(content, i) ==
    LET a == SkipWs(content, i + 1)
        b == SkipWs(content, a + 1)
        c == SkipArgs(content, b + 1)
        d == SkipWs(content, c + 1)
    IN  IF /\ At(content, i, "async")
           /\ a > i + 1
           /\ At(content, a, "callApi")
           /\ At(content, b, "(")
           /\ At(content, c, ")")
           /\ At(content, d, "{")
        THEN d ELSE 0

\* re.search scans left to right and returns the leftmost match.
RECURSIVE SearchFrom(_, _)
SearchFrom(content, i) ==
    IF i > Len(content) THEN 0
    ELSE LET end == MatchAt(content, i)
         IN  IF end # 0 THEN end ELSE SearchFrom(content, i + 1)

\* async\s*callApi: the whitespace after async made optional.
MatchAtLoose(content, i) ==
    LET a == SkipWs(content, i + 1)
        b == SkipWs(content, a + 1)
        c == SkipArgs(content, b + 1)
        d == SkipWs(content, c + 1)
    IN  IF /\ At(content, i, "async")
           /\ At(content, a, "callApi")
           /\ At(content, b, "(")
           /\ At(content, c, ")")
           /\ At(content, d, "{")
        THEN d ELSE 0

RECURSIVE SearchFromLoose(_, _)
SearchFromLoose(content, i) ==
    IF i > Len(content) THEN 0
    ELSE LET end == MatchAtLoose(content, i)
         IN  IF end # 0 THEN end ELSE SearchFromLoose(content, i + 1)

_find_callapi_function_loose(content) == SearchFromLoose(content, 1)

\* The rightmost match instead of the leftmost.
RECURSIVE SearchBack(_, _)
SearchBack(content, i) ==
    IF i < 1 THEN 0
    ELSE LET end == MatchAt(content, i)
         IN  IF end # 0 THEN end ELSE SearchBack(content, i - 1)

_find_callapi_function_last(content) == SearchBack(content, Len(content))

\* match.end() of the leftmost match, 0 for None.
_find_callapi_function(content) == SearchFrom(content, 1)

(* --------------------------- file system ------------------------------ *)
\* How a file operation that fails part-way leaves the file it was writing:
\* not opened, half written, or written in full (the failure came after the
\* last byte, e.g. in copystat or in a later print).
Leftovers == {"untouched", "partial", "complete"}

Leftover(old, content, how) ==
    LET w == IF old.exists THEN old.writable ELSE TRUE
    IN  CASE how = "untouched" -> old
          [] how = "partial" -> File(Prefix(content, Len(content) \div 2), w)
          [] how = "complete" -> File(content, w)

\* open(file_path, 'w') ... f.write(content)
write_text(file, content, fails, how) ==
    IF file.exists /\ ~file.writable THEN [ok |-> FALSE, file |-> file]
    ELSE IF fails THEN [ok |-> FALSE, file |-> Leftover(file, content, how)]
    ELSE [ok |-> TRUE, file |-> File(content, IF file.exists THEN file.writable ELSE TRUE)]

\* shutil.copy2(src, dst): content and permission bits
copy2(src, dst, fails, how) ==
    IF ~src.exists \/ (dst.exists /\ ~dst.writable) THEN [ok |-> FALSE, file |-> dst]
    ELSE IF fails THEN [ok |-> FALSE, file |-> Leftover(dst, src.content, how)]
    ELSE [ok |-> TRUE, file |-> File(src.content, src.writable)]

_ensure_write_permissions(file, chmodFails) ==
    IF file.exists /\ ~file.writable
    THEN IF chmodFails THEN [ok |-> FALSE, file |-> file]
         ELSE [ok |-> TRUE, file |-> [file EXCEPT !.writable = TRUE]]
    ELSE [ok |-> TRUE, file |-> file]

\* The copy made whether or not a backup exists.
_create_backup_overwrite(t, b, fails, how) == copy2(t, b, fails, how)

\* Success reported without a copy.
_create_backup_nocopy(t, b, fails, how) == [ok |-> TRUE, file |-> b]

_create_backup(t, b, fails, how) ==
    IF b.exists THEN [ok |-> TRUE, file |-> b]
    ELSE copy2(t, b, fails, how)

(* --------------------------- PatchResult ------------------------------ *)
PatchResult(success, message) ==
    [success |-> success, message |-> message, raised |-> FALSE]

\* An exception that leaves the code it was raised in.
Raise == [success |-> FALSE, message |-> "", raised |-> TRUE]

Outcome(t, b, result) == [target |-> t, backup |-> b, result |-> result]

(* ---------------------------- apply_patch ----------------------------- *)
ApplyFaults == {"none", "unexpected", "read", "chmod", "backup", "write", "rollback"}

\* content[:func_start] + patch_code + content[func_start:]
patched_content(content, func_start, mode) ==
    Prefix(content, func_start)
        \o (patches(mode) \o _generate_session_randomizer)
        \o SubSeq(content, func_start + 1, Len(content))

\* The body of the try of apply_patch.
apply_patch_try(t, b, mode, fault, how) ==
    IF ~t.exists THEN Outcome(t, b, PatchResult(FALSE, "file not found"))
    ELSE IF fault = "unexpected" THEN Outcome(t, b, Raise)
    ELSE IF fault = "read" THEN Outcome(t, b, PatchResult(FALSE, "read failed"))
    ELSE IF _is_already_patched(t.content)
         THEN Outcome(t, b, PatchResult(FALSE, "already patched"))
    ELSE IF _find_callapi_function(t.content) = 0
         THEN Outcome(t, b, PatchResult(FALSE, "callApi not found"))
    ELSE
    LET perm == _ensure_write_permissions(t, fault = "chmod")
        bak == _create_backup(perm.file, b, fault = "backup", how)
        new == patched_content(t.content, _find_callapi_function(t.content), mode)
        wr == write_text(perm.file, new, fault \in {"write", "rollback"}, how)
        back == copy2(bak.file, _ensure_write_permissions(wr.file, FALSE).file,
                      fault = "rollback", how)
    IN  IF ~perm.ok THEN Outcome(t, b, PatchResult(FALSE, "no write permission"))
        ELSE IF ~bak.ok
             THEN Outcome(perm.file, bak.file, PatchResult(FALSE, "backup failed"))
        ELSE IF wr.ok
             THEN Outcome(wr.file, bak.file, PatchResult(TRUE, "patched"))
        ELSE Outcome(back.file, bak.file, PatchResult(FALSE, "write failed"))

\* except Exception as e: return PatchResult(False, ...)
apply_patch(t, b, mode, fault, how) ==
    LET r == apply_patch_try(t, b, mode, fault, how)
    IN  IF r.result.raised
        THEN [r EXCEPT !.result = PatchResult(FALSE, "patch failed")]
        ELSE r

(* ------------------------- restore_from_backup ------------------------ *)
RestoreFaults == {"none", "chmod", "copy"}

restore_from_backup_try(t, b, fault, how) ==
    LET perm == _ensure_write_permissions(t, fault = "chmod")
        cp == copy2(b, perm.file, fault = "copy", how)
    IN  IF ~b.exists THEN Outcome(t, b, PatchResult(FALSE, "backup not found"))
        ELSE IF ~perm.ok THEN Outcome(t, b, PatchResult(FALSE, "no write permission"))
        ELSE IF ~cp.ok THEN Outcome(cp.file, b, Raise)
        ELSE Outcome(cp.file, b, PatchResult(TRUE, "restored"))

\* The try without its except.
restore_from_backup_noexcept(t, b, fault, how) ==
    restore_from_backup_try(t, b, fault, how)

restore_from_backup(t, b, fault, how) ==
    LET r == restore_from_backup_try(t, b, fault, how)
    IN  IF r.result.raised
        THEN [r EXCEPT !.result = PatchResult(FALSE, "restore failed")]
        ELSE r

(* --------------------------- get_patch_status -------------------------- *)
StatusFaults == {"none", "read"}

\* FALLBACK_TEXTS
StatusTexts == {"file not found", "patched", "not patched", "status unknown"}

get_patch_status_try(t, fault) ==
    IF ~t.exists THEN PatchResult(TRUE, "file not found")
    ELSE IF fault = "read" THEN Raise
    ELSE IF _is_already_patched(t.content) THEN PatchResult(TRUE, "patched")
    ELSE PatchResult(TRUE, "not patched")

\* all(...) where the code has any(...).
get_patch_status_all(t, fault) ==
    IF ~t.exists THEN PatchResult(TRUE, "file not found")
    ELSE IF fault = "read" THEN PatchResult(TRUE, "status unknown")
    ELSE IF \A sig \in patch_signatures : Contains(t.content, sig)
         THEN PatchResult(TRUE, "patched")
    ELSE PatchResult(TRUE, "not patched")

get_patch_status(t, fault) ==
    LET r == get_patch_status_try(t, fault)
    IN  IF r.raised THEN PatchResult(TRUE, "status unknown") ELSE r

(* ------------------------- target versions ---------------------------- *)
Anchor == <<"async", "ws", "callApi", "(", "x", ")", "ws", "{">>

RECURSIVE Functions(_)
Functions(n) == IF n = 0 THEN <<>> ELSE Anchor \o <<"x", "}">> \o Functions(n - 1)

\* Releases of the extension file: some text, then n functions callApi.
Versions == {<<"x">> \o Functions(n) : n \in 0..MaxAnchors}

\* Targets the regular expression and the signature test have to tell apart.
Specials ==
    { <<"async", "callApi", "(", ")", "{", "}">>,
      <<"async", "ws", "ws", "callApi", "ws", "(", "{", ")", "{", "x", "}">>,
      <<"x", "async", "ws", "callApi", "(", "x", "{", "}">>,
      <<"x", SigSession>>,
      Anchor \o <<SigRecord, "}">> }

Contents == Versions \cup Specials

(* ----------------------------- the system ----------------------------- *)
\* last: the most recent call, the files it found, what it returned, and
\* whether the call right before it was a successful apply_patch (and the
\* target that call found).
Record(op, mode, fault, result, afterApply, prePatch) ==
    [op |-> op, mode |-> mode, fault |-> fault, pre |-> target, preBackup |-> backup,
     result |-> result, afterApply |-> afterApply, prePatch |-> prePatch]

NoCall == [op |-> "none", mode |-> "none", fault |-> "none", pre |-> Absent,
           preBackup |-> Absent, result |-> PatchResult(TRUE, "none"),
           afterApply |-> FALSE, prePatch |-> Absent]

JustPatched == last.op = "apply" /\ last.result.success

PrePatch == IF JustPatched THEN last.pre ELSE Absent

Init ==
    /\ target \in {Absent} \cup {File(c, TRUE) : c \in Contents}
    /\ backup = Absent
    /\ last = NoCall

\* The leftovers a fault can choose among: only a failing write or copy
\* leaves any.
Hows(fault) ==
    IF fault \in {"backup", "write", "rollback", "copy"} THEN Leftovers ELSE {"untouched"}

\* One call of apply_patch, its failures drawn from faults.
ApplyPatchIn(faults) ==
    \E mode \in PatchMode, fault \in faults :
      \E how \in Hows(fault) :
        \E r \in {apply_patch(target, backup, mode, fault, how)} :
            /\ target' = r.target
            /\ backup' = r.backup
            /\ last' = Record("apply", mode, fault, r.result, JustPatched, PrePatch)

ApplyPatch == ApplyPatchIn(ApplyFaults)

RestoreFromBackupIn(faults) ==
    \E fault \in faults :
      \E how \in Hows(fault) :
        \E r \in {restore_from_backup(target, backup, fault, how)} :
            /\ target' = r.target
            /\ backup' = r.backup
            /\ last' = Record("restore", "none", fault, r.result, JustPatched, PrePatch)

RestoreFromBackup == RestoreFromBackupIn(RestoreFaults)

GetPatchStatusIn(faults) ==
    \E fault \in faults :
        /\ last' = Record("status", "none", fault, get_patch_status(target, fault),
                          JustPatched, PrePatch)
        /\ UNCHANGED <<target, backup>>

GetPatchStatus == GetPatchStatusIn(StatusFaults)

\* The environment: the extension is updated or reinstalled, made read-only,
\* or removed.  The backup is a file only PatchManager writes.
ReplaceTarget ==
    \E c \in Contents :
        /\ target' = File(c, TRUE)
        /\ last' = NoCall
        /\ UNCHANGED backup

MakeReadOnly ==
    /\ target.exists /\ target.writable
    /\ target' = [target EXCEPT !.writable = FALSE]
    /\ last' = NoCall
    /\ UNCHANGED backup

DeleteTarget ==
    /\ target.exists
    /\ target' = Absent
    /\ last' = NoCall
    /\ UNCHANGED backup

Next ==
    \/ ApplyPatch
    \/ RestoreFromBackup
    \/ GetPatchStatus
    \/ ReplaceTarget
    \/ MakeReadOnly
    \/ DeleteTarget

Spec == Init /\ [][Next]_vars

\* The behaviours in which no file operation ever fails.
NextNoFault ==
    \/ ApplyPatchIn({"none"})
    \/ RestoreFromBackupIn({"none"})
    \/ GetPatchStatusIn({"none"})
    \/ ReplaceTarget
    \/ MakeReadOnly
    \/ DeleteTarget

SpecNoFault == Init /\ [][NextNoFault]_vars

\* The behaviours in which the only failure is the write of the patched
\* content (the rollback copy that follows it succeeds).
NextWriteFault ==
    \/ ApplyPatchIn({"none", "write"})
    \/ RestoreFromBackupIn({"none"})
    \/ GetPatchStatusIn({"none"})
    \/ ReplaceTarget
    \/ MakeReadOnly
    \/ DeleteTarget

SpecWriteFault == Init /\ [][NextWriteFault]_vars

(* ------------------------- stating the claims ------------------------- *)
\* content[s..e] is one match of async\s+callApi\s*\([^)]*\)\s*\{
AnchorSpan(content, s, e) ==
    /\ content[s] = "async"
    /\ content[e] = "{"
    /\ \E a \in (s + 2)..e :
        /\ content[a] = "callApi"
        /\ \A k \in (s + 1)..(a - 1) : content[k] = "ws"
        /\ \E b \in (a + 1)..e :
            /\ content[b] = "("
            /\ \A k \in (a + 1)..(b - 1) : content[k] = "ws"
            /\ \E c \in (b + 1)..(e - 1) :
                /\ content[c] = ")"
                /\ \A k \in (b + 1)..(c - 1) : content[k] # ")"
                /\ \A k \in (c + 1)..(e - 1) : content[k] = "ws"

AnchorStarts(content) ==
    {s \in 1..Len(content) : \E e \in s..Len(content) : AnchorSpan(content, s, e)}

HasAnchor(content) == AnchorStarts(content) # {}

\* The opening brace of the first match.
FirstAnchorEnd(content) ==
    LET s == CHOOSE x \in AnchorStarts(content) : \A y \in AnchorStarts(content) : x <= y
    IN  CHOOSE e \in s..Len(content) : AnchorSpan(content, s, e)

HasSignature(content) ==
    \/ Contains(content, "startsWith(\"report-\")")
    \/ Contains(content, "startsWith(\"record-\")")
    \/ Contains(content, "randSessionId")
    \/ Contains(content, "this._userAgent = \"\"")

HasAllSignatures(content) ==
    /\ Contains(content, "startsWith(\"report-\")")
    /\ Contains(content, "startsWith(\"record-\")")
    /\ Contains(content, "randSessionId")
    /\ Contains(content, "this._userAgent = \"\"")

\* C1: when apply_patch succeeds and restore_from_backup is called next, the
\* restore succeeds and the target holds the content it had right before the
\* apply_patch call, whatever calls and target replacements preceded, an
\* existing backup included.  (Checked where no file operation fails.)
C1_RestoreYieldsPrePatch ==
    (last.op = "restore" /\ last.afterApply)
    => (last.result.success /\ target.content = last.prePatch.content)

\* C2: once the backup exists no call changes it: every step from a state
\* with a backup leaves the backup as it is.
C2_BackupNeverOverwritten == [][backup.exists => backup' = backup]_vars

\* C2 witness: apply_patch succeeded on a target that differs from the
\* backup it found, and the backup is still what it found.
C2_Witness ==
    /\ last.op = "apply" /\ last.result.success
    /\ last.preBackup.exists
    /\ last.preBackup.content # last.pre.content
    /\ backup = last.preBackup

\* C3: for every mode, apply_patch on an existing target that holds the
\* anchor and no signature, with no file operation failing, succeeds and
\* leaves all four signatures in the target.
C3_PatchSucceeds ==
    (last.op = "apply" /\ last.fault = "none" /\ last.pre.exists
        /\ HasAnchor(last.pre.content) /\ ~HasSignature(last.pre.content))
    => (last.result.success /\ target.exists /\ HasAllSignatures(target.content))

C3_Witness ==
    /\ last.op = "apply" /\ last.mode = "empty" /\ last.fault = "none"
    /\ ~last.pre.writable
    /\ HasAnchor(last.pre.content) /\ ~HasSignature(last.pre.content)
    /\ last.result.success

\* C4: an apply_patch right after a successful apply_patch fails, leaves
\* target and backup as they were, and (when it gets to read the target)
\* says the target is already patched.
C4_SecondPatchRefused ==
    (last.op = "apply" /\ last.afterApply)
    => /\ ~last.result.success
       /\ target = last.pre
       /\ backup = last.preBackup
       /\ last.fault \notin {"unexpected", "read"}
            => last.result.message = "already patched"

C4_Witness ==
    /\ last.op = "apply" /\ last.afterApply
    /\ last.result.message = "already patched"
    /\ last.mode = "debug"

\* C5: apply_patch on a target without the anchor fails, leaves the target
\* as it was and creates no backup.
C5_NoAnchorNoEffect ==
    (last.op = "apply" /\ last.pre.exists /\ ~HasAnchor(last.pre.content))
    => /\ ~last.result.success
       /\ target = last.pre
       /\ backup = last.preBackup

C5_Witness ==
    /\ last.op = "apply" /\ last.fault = "none"
    /\ Contains(last.pre.content, "async") /\ ~HasAnchor(last.pre.content)
    /\ ~HasSignature(last.pre.content)
    /\ ~backup.exists

\* C6: when the write of the patched content fails and the rollback copy
\* succeeds, apply_patch returns failure and the target holds the content it
\* had before the call, whatever backup the call found.
C6_RollbackYieldsPreCall ==
    (last.op = "apply" /\ last.fault = "write"
        /\ last.result.message = "write failed")
    => (~last.result.success /\ target.content = last.pre.content)

\* C7: no call ends by raising; a failed apply_patch or restore_from_backup
\* returns success = False with a message, a missing target or backup makes
\* the call fail, and get_patch_status returns one of its status texts.
C7_NoCallRaises ==
    /\ ~last.result.raised
    /\ last.op \in {"apply", "restore"} /\ ~last.result.success
         => last.result.message # ""
    /\ last.op = "apply" /\ ~last.pre.exists => ~last.result.success
    /\ last.op = "restore" /\ ~last.preBackup.exists => ~last.result.success
    /\ last.op = "status" => last.result.message \in StatusTexts

C7_Witness ==
    /\ last.op = "restore" /\ last.fault = "copy"
    /\ last.preBackup.exists
    /\ ~last.result.success /\ last.result.message = "restore failed"

\* C8: get_patch_status changes no file and answers file-not-found for a
\* missing target, status-unknown when the read fails, patched exactly when
\* the content read holds at least one signature, else not-patched; so
\* patched right after a successful apply_patch.
C8_StatusOutcome ==
    last.op = "status"
    => /\ target = last.pre
       /\ backup = last.preBackup
       /\ last.result.message =
            IF ~last.pre.exists THEN "file not found"
            ELSE IF last.fault = "read" THEN "status unknown"
            ELSE IF HasSignature(last.pre.content) THEN "patched"
            ELSE "not patched"
       /\ last.afterApply /\ last.fault = "none" => last.result.message = "patched"

C8_Witness ==
    /\ last.op = "status" /\ last.fault = "none"
    /\ last.pre.exists
    /\ HasSignature(last.pre.content) /\ ~HasAllSignatures(last.pre.content)
    /\ last.result.message = "patched"

C10_BackupBeforeWrite ==
    /\ last.op = "apply" /\ target.content # last.pre.content => backup.exists
    /\ backup.exists => ~HasSignature(backup.content)
    /\ last.op = "restore" /\ last.result.success
         => get_patch_status(target, "none").message = "not patched"

C10_Witness ==
    /\ last.op = "restore" /\ last.result.success /\ last.afterApply
    /\ target.content # last.pre.content

====
